---- MODULE Spec2Model ----
\* Model of website_checker_to_excel.py: the polling loop of main() together
\* with parse_html, get_diff, write_to_excel and send_email.
\*
\* A text is a sequence of characters; "\n" is the line separator.  The markup
\* tokens "<style>" and "</style>" and the hunk header of a unified diff are
\* kept as one element each.
EXTENDS Integers, Sequences, FiniteSets, TLC

\* ---------------------------------------------------------------- bounds
MaxTicks == 3       \* fetches performed in one run of main
MaxLines == 4       \* lines of a text handed to get_diff on its own

\* ------------------------------------------------------ program constants
FetchBackoff == 300     \* time.sleep(300)
PollInterval == 1800    \* time.sleep(1800)
ContextLines == 3       \* difflib.unified_diff(..., n=3)

NL == "\n"
Char == {"a", NL}

\* ------------------------------------------------------------ text helpers
FirstNL(t) ==
    IF \E k \in 1..Len(t) : t[k] = NL
    THEN CHOOSE k \in 1..Len(t) : t[k] = NL /\ \A m \in 1..(k-1) : t[m] # NL
    ELSE 0

\* str.splitlines(): split at every "\n"; a final "\n" opens no further line
RECURSIVE splitlines(_)
splitlines(t) ==
    IF t = <<>> THEN <<>>
    ELSE LET k == FirstNL(t) IN
         IF k = 0 THEN <<t>>
         ELSE <<SubSeq(t, 1, k-1)>> \o splitlines(SubSeq(t, k+1, Len(t)))

\* '\n'.join(lines)
RECURSIVE join(_)
join(lines) ==
    IF lines = <<>> THEN <<>>
    ELSE IF Len(lines) = 1 THEN lines[1]
    ELSE lines[1] \o <<NL>> \o join(Tail(lines))

\* str.strip() over the whitespace of the alphabet
RECURSIVE strip(_)
strip(t) ==
    IF t = <<>> THEN t
    ELSE IF t[1] = NL THEN strip(Tail(t))
    ELSE IF t[Len(t)] = NL THEN strip(SubSeq(t, 1, Len(t)-1))
    ELSE t

\* --------------------------------------------- difflib, as get_diff uses it
\* variant: the run stops one element before the end of a
RECURSIVE RunLen_Short(_, _, _, _, _, _)
RunLen_Short(a, b, i, j, ahi, bhi) ==
    IF i < ahi - 1 /\ j < bhi /\ a[i+1] = b[j+1]
    THEN 1 + RunLen_Short(a, b, i+1, j+1, ahi, bhi)
    ELSE 0

\* length of the common run of a[i..ahi) and b[j..bhi)  (0-based, half-open)
RECURSIVE RunLen(_, _, _, _, _, _)
RunLen(a, b, i, j, ahi, bhi) ==
    IF i < ahi /\ j < bhi /\ a[i+1] = b[j+1]
    THEN 1 + RunLen(a, b, i+1, j+1, ahi, bhi)
    ELSE 0

MaxOf(S) == CHOOSE k \in S : \A m \in S : m <= k
MinOf(S) == CHOOSE k \in S : \A m \in S : k <= m

\* of the blocks of length best, the one starting earliest in a and, of those,
\* the one starting earliest in b
EarliestBlockAt(a, b, blo, ahi, bhi, best, bi) ==
    <<bi, MinOf({j \in blo..(bhi-1) : RunLen(a, b, bi, j, ahi, bhi) = best}), best>>

EarliestBlock(a, b, alo, ahi, blo, bhi, best) ==
    IF best = 0 THEN <<alo, blo, 0>>
    ELSE EarliestBlockAt(a, b, blo, ahi, bhi, best,
            MinOf({i \in alo..(ahi-1) :
                      \E j \in blo..(bhi-1) : RunLen(a, b, i, j, ahi, bhi) = best}))

\* SequenceMatcher.find_longest_match: the longest common block <<i, j, k>> of
\* a[alo..ahi) and b[blo..bhi)
find_longest_match(a, b, alo, ahi, blo, bhi) ==
    EarliestBlock(a, b, alo, ahi, blo, bhi,
        MaxOf({RunLen(a, b, p[1], p[2], ahi, bhi) :
                  p \in (alo..(ahi-1)) \X (blo..(bhi-1))} \cup {0}))

\* the recursion of SequenceMatcher.get_matching_blocks, in sorted order: the
\* blocks left of the longest match m, m itself, the blocks right of it
RECURSIVE MatchingBlocks(_, _, _, _, _, _)
RECURSIVE AroundMatch(_, _, _, _, _, _, _)
AroundMatch(a, b, alo, ahi, blo, bhi, m) ==
    IF m[3] = 0 THEN <<>>
    ELSE (IF alo < m[1] /\ blo < m[2]
          THEN MatchingBlocks(a, b, alo, m[1], blo, m[2]) ELSE <<>>)
         \o <<m>>
         \o (IF m[1] + m[3] < ahi /\ m[2] + m[3] < bhi
             THEN MatchingBlocks(a, b, m[1] + m[3], ahi, m[2] + m[3], bhi) ELSE <<>>)

MatchingBlocks(a, b, alo, ahi, blo, bhi) ==
    AroundMatch(a, b, alo, ahi, blo, bhi, find_longest_match(a, b, alo, ahi, blo, bhi))

\* adjacent blocks are merged
RECURSIVE Collapse(_)
Collapse(blocks) ==
    IF Len(blocks) < 2 THEN blocks
    ELSE LET x == blocks[1]
             y == blocks[2]
         IN IF x[1] + x[3] = y[1] /\ x[2] + x[3] = y[2]
            THEN Collapse(<<<<x[1], x[2], x[3] + y[3]>>>> \o SubSeq(blocks, 3, Len(blocks)))
            ELSE <<x>> \o Collapse(Tail(blocks))

get_matching_blocks(a, b) ==
    Collapse(MatchingBlocks(a, b, 0, Len(a), 0, Len(b))) \o <<<<Len(a), Len(b), 0>>>>

Op(tag, i1, i2, j1, j2) == [tag |-> tag, i1 |-> i1, i2 |-> i2, j1 |-> j1, j2 |-> j2]

\* SequenceMatcher.get_opcodes
RECURSIVE OpcodesFrom(_, _, _)
OpcodesFrom(blocks, i, j) ==
    IF blocks = <<>> THEN <<>>
    ELSE LET ai == blocks[1][1]
             bj == blocks[1][2]
             size == blocks[1][3]
             tag == IF i < ai /\ j < bj THEN "replace"
                    ELSE IF i < ai THEN "delete"
                    ELSE IF j < bj THEN "insert"
                    ELSE ""
         IN (IF tag # "" THEN <<Op(tag, i, ai, j, bj)>> ELSE <<>>)
            \o (IF size > 0 THEN <<Op("equal", ai, ai + size, bj, bj + size)>> ELSE <<>>)
            \o OpcodesFrom(Tail(blocks), ai + size, bj + size)

get_opcodes(a, b) == OpcodesFrom(get_matching_blocks(a, b), 0, 0)

Max2(x, y) == IF x >= y THEN x ELSE y
Min2(x, y) == IF x <= y THEN x ELSE y

\* the loop of SequenceMatcher.get_grouped_opcodes: groups closed so far, and
\* the group being built
RECURSIVE GroupLoop(_, _, _, _)
GroupLoop(codes, n, done, group) ==
    IF codes = <<>>
    THEN IF group # <<>> /\ ~(Len(group) = 1 /\ group[1].tag = "equal")
         THEN Append(done, group) ELSE done
    ELSE LET c == codes[1] IN
         IF c.tag = "equal" /\ c.i2 - c.i1 > n + n
         THEN GroupLoop(Tail(codes), n,
                        Append(done, Append(group,
                            Op("equal", c.i1, Min2(c.i2, c.i1 + n), c.j1, Min2(c.j2, c.j1 + n)))),
                        <<Op("equal", Max2(c.i1, c.i2 - n), c.i2, Max2(c.j1, c.j2 - n), c.j2)>>)
         ELSE GroupLoop(Tail(codes), n, done, Append(group, c))

\* if not codes: codes = [("equal", 0, 1, 0, 1)]
OrOneEqual(codes) == IF codes = <<>> THEN <<Op("equal", 0, 1, 0, 1)>> ELSE codes

\* a leading equal opcode keeps its last n lines
TrimFirst(codes, n) ==
    IF codes[1].tag = "equal"
    THEN <<Op("equal", Max2(codes[1].i1, codes[1].i2 - n), codes[1].i2,
                       Max2(codes[1].j1, codes[1].j2 - n), codes[1].j2)>>
         \o Tail(codes)
    ELSE codes

\* a trailing equal opcode keeps its first n lines
TrimLast(codes, n) ==
    IF codes[Len(codes)].tag = "equal"
    THEN SubSeq(codes, 1, Len(codes) - 1)
         \o <<Op("equal", codes[Len(codes)].i1,
                          Min2(codes[Len(codes)].i2, codes[Len(codes)].i1 + n),
                          codes[Len(codes)].j1,
                          Min2(codes[Len(codes)].j2, codes[Len(codes)].j1 + n))>>
    ELSE codes

get_grouped_opcodes(a, b, n) ==
    GroupLoop(TrimLast(TrimFirst(OrOneEqual(get_opcodes(a, b)), n), n), n, <<>>, <<>>)

\* difflib._format_range_unified
format_range_unified(start, stop) ==
    LET beginning == start + 1
        length == stop - start
    IN IF length = 1 THEN ToString(beginning)
       ELSE ToString(IF length = 0 THEN beginning - 1 ELSE beginning)
            \o "," \o ToString(length)

\* prefix every line of s[lo..hi) with a marker
RECURSIVE Marked(_, _, _, _)
Marked(mark, s, lo, hi) ==
    IF lo >= hi THEN <<>>
    ELSE <<<<mark>> \o s[lo+1]>> \o Marked(mark, s, lo + 1, hi)

\* variant: a replaced line is shown as removed only
RECURSIVE GroupLines_NoPlusOnReplace(_, _, _)
GroupLines_NoPlusOnReplace(group, a, b) ==
    IF group = <<>> THEN <<>>
    ELSE LET c == group[1] IN
         (IF c.tag = "equal" THEN Marked(" ", a, c.i1, c.i2)
          ELSE (IF c.tag \in {"replace", "delete"} THEN Marked("-", a, c.i1, c.i2) ELSE <<>>)
               \o (IF c.tag = "insert" THEN Marked("+", b, c.j1, c.j2) ELSE <<>>))
         \o GroupLines_NoPlusOnReplace(Tail(group), a, b)

\* the lines of one hunk: context, removed and added lines
RECURSIVE GroupLines(_, _, _)
GroupLines(group, a, b) ==
    IF group = <<>> THEN <<>>
    ELSE LET c == group[1] IN
         (IF c.tag = "equal" THEN Marked(" ", a, c.i1, c.i2)
          ELSE (IF c.tag \in {"replace", "delete"} THEN Marked("-", a, c.i1, c.i2) ELSE <<>>)
               \o (IF c.tag \in {"replace", "insert"} THEN Marked("+", b, c.j1, c.j2) ELSE <<>>))
         \o GroupLines(Tail(group), a, b)

RECURSIVE HunkLines(_, _, _)
HunkLines(groups, a, b) ==
    IF groups = <<>> THEN <<>>
    ELSE LET g == groups[1]
             first == g[1]
             last == g[Len(g)]
         IN << <<"@@ -" \o format_range_unified(first.i1, last.i2)
                 \o " +" \o format_range_unified(first.j1, last.j2) \o " @@">> >>
            \o GroupLines(g, a, b)
            \o HunkLines(Tail(groups), a, b)

\* difflib.unified_diff(a, b, lineterm=''): the two header lines, then the hunks
WithHeader(groups, a, b) ==
    IF groups = <<>> THEN <<>>
    ELSE << <<"--- ">>, <<"+++ ">> >> \o HunkLines(groups, a, b)

unified_diff(a, b) == WithHeader(get_grouped_opcodes(a, b, ContextLines), a, b)

\* variant: the hunk header and the first line after it are dropped too
DropHeader_Four(lines) == IF Len(lines) <= 4 THEN <<>> ELSE SubSeq(lines, 5, Len(lines))

\* list(diff)[2:]
DropHeader(lines) == IF Len(lines) <= 2 THEN <<>> ELSE SubSeq(lines, 3, Len(lines))

get_diff(old_content, new_content) ==
    join(DropHeader(unified_diff(splitlines(old_content), splitlines(new_content))))

\* ------------------------------------------------------- fetched documents
\* A fetched page, as BeautifulSoup(content, 'html.parser') sees it: the text
\* outside the <style> elements and, per <style> element in document order,
\* the sequence of its child text nodes (none for <style></style>).
BodyTexts == {<<>>, <<"a">>}
StyleTexts == {<<"a">>, <<"a", NL>>, <<NL, "a">>}
StyleNodes == {<<>>} \cup {<<t>> : t \in StyleTexts}
Pages == [body : BodyTexts, styles : {<<>>} \cup {<<st>> : st \in StyleNodes}]

None == [none |-> TRUE]
Unbound == <<"<unbound>">>

\* get_website_content: the response text, or None on a RequestException
FetchOutcomes == Pages \cup {None}

\* Tag.string: the only child if there is exactly one, else None
HasString(style) == Len(style) = 1

\* soup.prettify(): every tag and every non-blank text on a line of its own
RECURSIVE PrettyStyles(_)
PrettyStyles(styles) ==
    IF styles = <<>> THEN <<>>
    ELSE LET st == styles[1]
             txt == IF st = <<>> THEN <<>> ELSE strip(st[1])
         IN <<"<style>", NL>>
            \o (IF txt = <<>> THEN <<>> ELSE txt \o <<NL>>)
            \o <<"</style>", NL>>
            \o PrettyStyles(Tail(styles))

prettify(page) ==
    PrettyStyles(page.styles)
    \o (IF strip(page.body) = <<>> THEN <<>> ELSE strip(page.body) \o <<NL>>)

RECURSIVE StyleStrings(_)
StyleStrings(styles) ==
    IF styles = <<>> THEN <<>>
    ELSE <<styles[1][1]>> \o StyleStrings(Tail(styles))

\* parse_html: '\n'.join raises TypeError when some style.string is None
parse_html(content) ==
    IF content = None \/ \E k \in 1..Len(content.styles) : ~HasString(content.styles[k])
    THEN [raised |-> TRUE, html |-> Unbound, css |-> Unbound]
    ELSE [raised |-> FALSE,
          html |-> prettify(content),
          css |-> join(StyleStrings(content.styles))]

\* ------------------------------------------------------------- spreadsheet
Header == << <<"Timestamp">>, <<"URL">>, <<"HTML Changes">>, <<"CSS Changes">> >>
NoFile == [exists |-> FALSE, rows |-> <<>>]
OldRow == << <<"old">>, <<"url">>, <<"@@ -0,0 +1 @@", NL, "+", "a">>, <<>> >>
OldFile == [exists |-> TRUE, rows |-> <<Header, OldRow>>]

\* variant: a new workbook is started on every call
write_to_excel_NewWorkbook(d, timestamp, url, hd, cd) ==
    [exists |-> TRUE, rows |-> <<Header, <<timestamp, url, hd, cd>>>>]

\* write_to_excel: the workbook as saved
write_to_excel(d, timestamp, url, hd, cd) ==
    LET ws == IF ~d.exists THEN <<Header>> ELSE d.rows
    IN [exists |-> TRUE, rows |-> Append(ws, <<timestamp, url, hd, cd>>)]

\* get_japan_time: the formatted current time
get_japan_time(now) == <<ToString(now)>>

URL == <<"url">>

\* ------------------------------------------------------------------- state
VARIABLES
    pc,                      \* position in main
    to_email,                \* TO_EMAIL is set and non-empty
    site_available,
    previous_content,
    first_successful_access,
    current_content,
    previous_html, previous_css,
    current_html, current_css,
    html_diff, css_diff,
    disk,                    \* the file excel_filename
    mail,                    \* one entry per call of send_email
    exception,               \* the exception that left main, if any
    clock,                   \* seconds slept so far
    ticks,                   \* fetches so far
    cycle,                   \* what happened since the last fetch, inclusive
    disk0,                   \* the file as it was when main started
    oks,                     \* the contents of the successful fetches, in order
    writes,                  \* the rows passed to the write_to_excel calls that saved
    args,                    \* the arguments, when one function is called on its own
    result                   \* what that call returned

vars == <<pc, to_email, site_available, previous_content,
          first_successful_access, current_content, previous_html, previous_css,
          current_html, current_css, html_diff, css_diff, disk, mail, exception,
          clock, ticks, cycle, disk0, oks, writes, args, result>>

history == <<disk0, oks, writes>>
unit == <<args, result>>

baseline == <<previous_html, previous_css>>
snapshot == <<current_html, current_css>>
diffs == <<html_diff, css_diff>>

Init ==
    /\ pc = "start"
    /\ to_email \in BOOLEAN
    /\ site_available = FALSE
    /\ previous_content = None
    /\ first_successful_access = Unbound
    /\ current_content = None
    /\ previous_html = Unbound
    /\ previous_css = Unbound
    /\ current_html = Unbound
    /\ current_css = Unbound
    /\ html_diff = Unbound
    /\ css_diff = Unbound
    /\ disk \in {NoFile, OldFile}
    /\ disk0 = disk
    /\ oks = <<>>
    /\ writes = <<>>
    /\ mail = <<>>
    /\ exception = "none"
    /\ clock = 0
    /\ ticks = 0
    /\ cycle = <<>>
    /\ args = None
    /\ result = None

\* -------------------------------------------------------------- send_email
\* the steps of the SMTP session inside the try block, by transport mode
SmtpSteps(tls) ==
    IF tls THEN {"create_default_context", "SMTP", "starttls", "login", "send_message"}
    ELSE {"SMTP_SSL", "login", "send_message"}

\* what one call of send_email reads from its environment: whether SMTP_PORT
\* is set and numeric, USE_TLS, whether the attachment can be read, and the
\* step of the SMTP session that raises ("none" when the session succeeds).
\* What a call never gets to read is left at one value: nothing after line 73
\* when SMTP_PORT is bad, no session when the attachment cannot be read.
SmtpEnv ==
    {e \in [port_ok : BOOLEAN, tls : BOOLEAN, readable : BOOLEAN,
            fail : SmtpSteps(TRUE) \cup SmtpSteps(FALSE) \cup {"none"}] :
        /\ e.fail \in SmtpSteps(e.tls) \cup {"none"}
        /\ ~e.port_ok => (e.readable /\ e.tls /\ e.fail = "none")
        /\ ~e.readable => (e.tls /\ e.fail = "none")}

\* variant: the os.path.exists test of line 83 is missing
send_email_NoExistsTest(subject, path, d, e) ==
    LET entry(outcome) ==
            [subject |-> subject,
             attached |-> path /\ d.exists /\ outcome # "raised",
             attachment |-> IF path /\ d.exists /\ outcome # "raised" THEN d.rows ELSE <<>>,
             outcome |-> outcome]
    IN IF ~e.port_ok THEN entry("raised")
       ELSE IF path /\ (~d.exists \/ ~e.readable) THEN entry("raised")
       ELSE IF e.fail = "none" THEN entry("sent")
       ELSE entry("logged")

\* One call of send_email; path is TRUE when attachment_path is given.
\* outcome: "sent" (logging.info), "logged" (the except branch, logging.error)
\* or "raised" (an exception outside the try block leaves the function).
send_email(subject, path, d, e) ==
    LET attach == path /\ d.exists
        entry(outcome) ==
            [subject |-> subject,
             attached |-> attach /\ outcome # "raised",
             attachment |-> IF attach /\ outcome # "raised" THEN d.rows ELSE <<>>,
             outcome |-> outcome]
    IN IF ~e.port_ok THEN entry("raised")                 \* int(os.getenv('SMTP_PORT'))
       ELSE IF attach /\ ~e.readable THEN entry("raised") \* open(attachment_path, 'rb')
       ELSE IF e.fail = "none" THEN entry("sent")
       ELSE entry("logged")

\* -------------------------------------------------------------------- main
\* variant: the TO_EMAIL check is missing
Startup_NoCheck ==
    /\ pc = "start"
    /\ pc' = "loop"
    /\ UNCHANGED <<history, unit, to_email, site_available, previous_content, first_successful_access,
                   current_content, baseline, snapshot, diffs, disk, mail,
                   exception, clock, ticks, cycle>>

\* lines 125-135: the prompts and the TO_EMAIL check
Startup ==
    /\ pc = "start"
    /\ pc' = IF to_email THEN "loop" ELSE "returned"
    /\ UNCHANGED <<history, unit, to_email, site_available, previous_content, first_successful_access,
                   current_content, baseline, snapshot, diffs, disk, mail,
                   exception, clock, ticks, cycle>>

\* line 142: current_content = get_website_content(url)
Fetch ==
    /\ pc = "loop"
    /\ ticks < MaxTicks
    /\ \E r \in FetchOutcomes :
         /\ current_content' = r
         /\ cycle' = <<IF r = None THEN "fetch_failed" ELSE "fetch_ok">>
         /\ oks' = IF r = None THEN oks ELSE Append(oks, r)
    /\ ticks' = ticks + 1
    /\ pc' = "fetched"
    /\ UNCHANGED <<disk0, writes, unit, to_email, site_available, previous_content, first_successful_access,
                   baseline, snapshot, diffs, disk, mail, exception, clock>>

\* variant: a failed fetch puts the loop back into AWAITING_FIRST_CONTENT
Unavailable_Resets ==
    /\ pc = "fetched"
    /\ current_content = None
    /\ pc' = "backoff"
    /\ site_available' = FALSE
    /\ previous_html' = Unbound
    /\ previous_css' = Unbound
    /\ UNCHANGED <<history, unit, to_email, previous_content, first_successful_access,
                   current_content, snapshot, diffs, disk, mail,
                   exception, clock, ticks, cycle>>

\* lines 144-148: the fetch failed; log and go to the backoff sleep
Unavailable ==
    /\ pc = "fetched"
    /\ current_content = None
    /\ pc' = "backoff"
    /\ UNCHANGED <<history, unit, to_email, site_available, previous_content, first_successful_access,
                   current_content, baseline, snapshot, diffs, disk, mail,
                   exception, clock, ticks, cycle>>

\* lines 149-150: time.sleep(300); continue
Backoff ==
    /\ pc = "backoff"
    /\ clock' = clock + FetchBackoff
    /\ cycle' = Append(cycle, "sleep300")
    /\ pc' = "loop"
    /\ UNCHANGED <<history, unit, to_email, site_available, previous_content, first_successful_access,
                   current_content, baseline, snapshot, diffs, disk, mail,
                   exception, ticks>>

\* variant: the None check of line 144 is missing
FirstAccess_NoNoneCheck ==
    /\ pc = "fetched"
    /\ ~site_available
    /\ site_available' = TRUE
    /\ first_successful_access' = get_japan_time(clock)
    /\ pc' = "notify_available"
    /\ UNCHANGED <<history, unit, to_email, previous_content, current_content, baseline, snapshot, diffs,
                   disk, mail, exception, clock, ticks, cycle>>

\* variant: the site_available test of line 152 is missing
FirstAccess_NoStateCheck ==
    /\ pc = "fetched"
    /\ current_content # None
    /\ site_available' = TRUE
    /\ first_successful_access' = get_japan_time(clock)
    /\ pc' = "notify_available"
    /\ UNCHANGED <<history, unit, to_email, previous_content, current_content, baseline, snapshot, diffs,
                   disk, mail, exception, clock, ticks, cycle>>

\* lines 152-155: the first successful fetch
FirstAccess ==
    /\ pc = "fetched"
    /\ current_content # None
    /\ ~site_available
    /\ site_available' = TRUE
    /\ first_successful_access' = get_japan_time(clock)
    /\ pc' = "notify_available"
    /\ UNCHANGED <<history, unit, to_email, previous_content, current_content, baseline, snapshot, diffs,
                   disk, mail, exception, clock, ticks, cycle>>

\* lines 156-160: send_email(subject, body, to_email) without attachment
NotifyAvailable ==
    /\ pc = "notify_available"
    /\ \E se \in SmtpEnv :
         LET e == send_email("available", FALSE, disk, se)
         IN /\ mail' = Append(mail, e)
            /\ pc' = IF e.outcome = "raised" THEN "crashed" ELSE "set_baseline"
            /\ exception' = IF e.outcome = "raised" THEN "send_email" ELSE exception
    /\ cycle' = Append(cycle, "email_available")
    /\ UNCHANGED <<history, unit, to_email, site_available, previous_content, first_successful_access,
                   current_content, baseline, snapshot, diffs, disk, clock, ticks>>

\* lines 161-163: the baseline is set; continue
SetBaseline ==
    /\ pc = "set_baseline"
    /\ previous_content' = current_content
    /\ LET p == parse_html(current_content)
       IN IF p.raised
          THEN /\ pc' = "crashed"
               /\ exception' = "parse_html"
               /\ UNCHANGED <<baseline, cycle>>
          ELSE /\ previous_html' = p.html
               /\ previous_css' = p.css
               /\ cycle' = Append(cycle, "baseline")
               /\ pc' = "loop"
               /\ UNCHANGED exception
    /\ UNCHANGED <<history, unit, to_email, site_available, first_successful_access, current_content,
                   snapshot, diffs, disk, mail, clock, ticks>>

\* variant: only the structural diff is looked at
ChangeDetected_HtmlOnly(hd, cd) == hd # <<>>

\* line 170: if html_diff or css_diff
ChangeDetected(hd, cd) == hd # <<>> \/ cd # <<>>

\* variant: every compared snapshot becomes the baseline at once
Compare_AdoptsSnapshot ==
    /\ pc = "fetched"
    /\ current_content # None
    /\ site_available
    /\ LET p == parse_html(current_content)
       IN IF p.raised
          THEN /\ pc' = "crashed"
               /\ exception' = "parse_html"
               /\ UNCHANGED <<baseline, snapshot, diffs, cycle>>
          ELSE /\ current_html' = p.html
               /\ current_css' = p.css
               /\ html_diff' = get_diff(previous_html, current_html')
               /\ css_diff' = get_diff(previous_css, current_css')
               /\ previous_html' = p.html
               /\ previous_css' = p.css
               /\ cycle' = Append(cycle, "diff")
               /\ pc' = IF ChangeDetected(html_diff', css_diff') THEN "write" ELSE "interval"
               /\ UNCHANGED exception
    /\ UNCHANGED <<history, unit, to_email, site_available, previous_content, first_successful_access,
                   current_content, disk, mail, clock, ticks>>

\* lines 165-170: normalize, diff against the baseline, decide
Compare ==
    /\ pc = "fetched"
    /\ current_content # None
    /\ site_available
    /\ LET p == parse_html(current_content)
       IN IF p.raised
          THEN /\ pc' = "crashed"
               /\ exception' = "parse_html"
               /\ UNCHANGED <<snapshot, diffs, cycle>>
          ELSE /\ current_html' = p.html
               /\ current_css' = p.css
               /\ html_diff' = get_diff(previous_html, current_html')
               /\ css_diff' = get_diff(previous_css, current_css')
               /\ cycle' = Append(cycle, "diff")
               /\ pc' = IF ChangeDetected(html_diff', css_diff') THEN "write" ELSE "interval"
               /\ UNCHANGED exception
    /\ UNCHANGED <<history, unit, to_email, site_available, previous_content, first_successful_access,
                   current_content, baseline, disk, mail, clock, ticks>>

\* variant: the failure of write_to_excel is noted and the cycle goes on
WriteRecord_Handled ==
    /\ pc = "write"
    /\ \E saved \in BOOLEAN :
         IF saved
         THEN /\ disk' = write_to_excel(disk, get_japan_time(clock), URL, html_diff, css_diff)
              /\ writes' = Append(writes, <<get_japan_time(clock), URL, html_diff, css_diff>>)
              /\ UNCHANGED exception
         ELSE /\ exception' = "write_to_excel"
              /\ UNCHANGED <<disk, writes>>
    /\ pc' = "notify_change"
    /\ cycle' = Append(cycle, "write")
    /\ UNCHANGED <<disk0, oks, unit, to_email, site_available, previous_content, first_successful_access,
                   current_content, baseline, snapshot, diffs, mail, clock, ticks>>

\* lines 171-173: timestamp = get_japan_time(); write_to_excel(...)
WriteRecord ==
    /\ pc = "write"
    /\ \E saved \in BOOLEAN :
         IF saved
         THEN /\ disk' = write_to_excel(disk, get_japan_time(clock), URL, html_diff, css_diff)
              /\ writes' = Append(writes, <<get_japan_time(clock), URL, html_diff, css_diff>>)
              /\ pc' = "notify_change"
              /\ UNCHANGED exception
         ELSE /\ pc' = "crashed"
              /\ exception' = "write_to_excel"
              /\ UNCHANGED <<disk, writes>>
    /\ cycle' = Append(cycle, "write")
    /\ UNCHANGED <<disk0, oks, unit, to_email, site_available, previous_content, first_successful_access,
                   current_content, baseline, snapshot, diffs, mail, clock, ticks>>

\* lines 176-178: send_email(subject, body, to_email, excel_filename)
NotifyChange ==
    /\ pc = "notify_change"
    /\ \E se \in SmtpEnv :
         LET e == send_email("change", TRUE, disk, se)
         IN /\ mail' = Append(mail, e)
            /\ pc' = IF e.outcome = "raised" THEN "crashed" ELSE "replace_baseline"
            /\ exception' = IF e.outcome = "raised" THEN "send_email" ELSE exception
    /\ cycle' = Append(cycle, "email_change")
    /\ UNCHANGED <<history, unit, to_email, site_available, previous_content, first_successful_access,
                   current_content, baseline, snapshot, diffs, disk, clock, ticks>>

\* variant: the baseline is replaced only when the notification went out
ReplaceBaseline_IfSent ==
    /\ pc = "replace_baseline"
    /\ previous_html' = IF mail[Len(mail)].outcome = "sent" THEN current_html ELSE previous_html
    /\ previous_css' = IF mail[Len(mail)].outcome = "sent" THEN current_css ELSE previous_css
    /\ cycle' = Append(cycle, "baseline")
    /\ pc' = "interval"
    /\ UNCHANGED <<history, unit, to_email, site_available, previous_content, first_successful_access,
                   current_content, snapshot, diffs, disk, mail, exception, clock, ticks>>

\* variant: only the structural projection of the baseline is replaced
ReplaceBaseline_HtmlOnly ==
    /\ pc = "replace_baseline"
    /\ previous_html' = current_html
    /\ cycle' = Append(cycle, "baseline")
    /\ pc' = "interval"
    /\ UNCHANGED <<history, unit, to_email, site_available, previous_content, first_successful_access,
                   current_content, previous_css, snapshot, diffs, disk, mail, exception, clock, ticks>>

\* variant: the baseline is not replaced after a recorded change
ReplaceBaseline_Keep ==
    /\ pc = "replace_baseline"
    /\ cycle' = Append(cycle, "baseline")
    /\ pc' = "interval"
    /\ UNCHANGED <<history, unit, to_email, site_available, previous_content, first_successful_access,
                   current_content, baseline, snapshot, diffs, disk, mail, exception, clock, ticks>>

\* line 180: previous_html, previous_css = current_html, current_css
ReplaceBaseline ==
    /\ pc = "replace_baseline"
    /\ previous_html' = current_html
    /\ previous_css' = current_css
    /\ cycle' = Append(cycle, "baseline")
    /\ pc' = "interval"
    /\ UNCHANGED <<history, unit, to_email, site_available, previous_content, first_successful_access,
                   current_content, snapshot, diffs, disk, mail, exception, clock, ticks>>

\* line 182: time.sleep(1800)
Interval ==
    /\ pc = "interval"
    /\ clock' = clock + PollInterval
    /\ cycle' = Append(cycle, "sleep1800")
    /\ pc' = "loop"
    /\ UNCHANGED <<history, unit, to_email, site_available, previous_content, first_successful_access,
                   current_content, baseline, snapshot, diffs, disk, mail,
                   exception, ticks>>

Next ==
    \/ Startup
    \/ Fetch
    \/ Unavailable
    \/ Backoff
    \/ FirstAccess
    \/ NotifyAvailable
    \/ SetBaseline
    \/ Compare
    \/ WriteRecord
    \/ NotifyChange
    \/ ReplaceBaseline
    \/ Interval

Spec == Init /\ [][Next]_vars

\* ------------------------------------------- one function called on its own
\* the texts get_diff is given: up to MaxLines lines, with or without a final "\n"
DiffLines == {<<"a">>, <<"b">>}
LineSeqs == UNION {[1..k -> DiffLines] : k \in 0..MaxLines}
DiffTexts == {join(ls) \o e : ls \in LineSeqs, e \in {<<>>, <<NL>>}}
DiffArgs == [fn : {"get_diff"}, old : DiffTexts, new : DiffTexts]

\* the arguments and the environment of a call of send_email
MailArgs == [fn : {"send_email"}, subject : {"available", "change"}, path : BOOLEAN,
             d : {NoFile, OldFile}, env : SmtpEnv]

UnitInit ==
    /\ pc = "call"
    /\ (args \in DiffArgs \/ args \in MailArgs)
    /\ result = None
    /\ to_email = TRUE
    /\ site_available = FALSE
    /\ previous_content = None
    /\ first_successful_access = Unbound
    /\ current_content = None
    /\ previous_html = Unbound
    /\ previous_css = Unbound
    /\ current_html = Unbound
    /\ current_css = Unbound
    /\ html_diff = Unbound
    /\ css_diff = Unbound
    /\ disk = NoFile
    /\ disk0 = NoFile
    /\ oks = <<>>
    /\ writes = <<>>
    /\ mail = <<>>
    /\ exception = "none"
    /\ clock = 0
    /\ ticks = 0
    /\ cycle = <<>>

loop == <<to_email, site_available, previous_content, first_successful_access,
          current_content, baseline, snapshot, diffs, disk, mail, exception,
          clock, ticks, cycle, history>>

\* lines 43-46: get_diff(old_content, new_content)
CallGetDiff ==
    /\ pc = "call"
    /\ args.fn = "get_diff"
    /\ result' = get_diff(args.old, args.new)
    /\ pc' = "return"
    /\ UNCHANGED <<args, loop>>

\* lines 61-105: send_email(subject, body, to_email, attachment_path)
CallSendEmail ==
    /\ pc = "call"
    /\ args.fn = "send_email"
    /\ result' = send_email(args.subject, args.path, args.d, args.env)
    /\ pc' = "return"
    /\ UNCHANGED <<args, loop>>

UnitNext ==
    \/ CallGetDiff
    \/ CallSendEmail

UnitSpec == UnitInit /\ [][UnitNext]_vars

\* the monitor loop and the single calls side by side
FullInit == Init \/ UnitInit

FullNext == Next \/ UnitNext

FullSpec == FullInit /\ [][FullNext]_vars

\* =================================================================== claims
Has(seq, x) == \E k \in 1..Len(seq) : seq[k] = x
Count(seq, x) == Cardinality({k \in 1..Len(seq) : seq[k] = x})
Last(seq) == seq[Len(seq)]
Sleeps == {"sleep300", "sleep1800"}

\* C1: in every polling cycle write_to_excel is called exactly once if and
\* only if one of the two diffs computed in that cycle is non-empty; a cycle
\* whose fetch failed and the cycle of the first successful fetch write nothing.
C1_WriteIffDiff ==
    /\ Count(cycle, "write") <= 1
    /\ Has(cycle, "write") =>
          Has(cycle, "diff") /\ (html_diff # <<>> \/ css_diff # <<>>)
    /\ (Has(cycle, "diff") /\ (html_diff # <<>> \/ css_diff # <<>>) /\ pc # "write") =>
          Has(cycle, "write")
    /\ (Has(cycle, "fetch_failed") \/ Has(cycle, "email_available")) =>
          (~Has(cycle, "write") /\ ~Has(cycle, "diff"))

\* a cycle that recorded a change of the style text alone
C1_Witness ==
    /\ pc = "interval"
    /\ Has(cycle, "write")
    /\ html_diff = <<>>
    /\ css_diff # <<>>

\* C2: as long as no fetch has succeeded, the spreadsheet is as it was at
\* startup, no email of either kind has been attempted, and the only time that
\* passes is the 300 s backoff per failed fetch.
C2_AllFetchesFail ==
    oks = <<>> =>
        /\ disk = disk0
        /\ writes = <<>>
        /\ mail = <<>>
        /\ ~site_available
        /\ pc \in {"start", "returned", "loop", "fetched", "backoff"}
        /\ (pc = "loop" => clock = ticks * FetchBackoff)

\* every fetch of the run has failed
C2_Witness ==
    /\ oks = <<>>
    /\ ticks = MaxTicks
    /\ pc = "loop"

\* C3: a successful poll that returns the same content as the successful
\* poll before it produces no ChangeRecord.
C3_SameContentNoRecord ==
    (Len(oks) >= 2 /\ oks[Len(oks)] = oks[Len(oks) - 1] /\ Has(cycle, "fetch_ok")) =>
        (pc # "write" /\ ~Has(cycle, "write"))

\* the same content twice after a recorded change, compared and found unchanged
C3_Witness ==
    /\ Len(oks) >= 3
    /\ oks[Len(oks)] = oks[Len(oks) - 1]
    /\ writes # <<>>
    /\ pc = "interval"
    /\ cycle = <<"fetch_ok", "diff">>

\* C4: in a cycle whose fetch failed while MONITORING, no step changes the
\* baseline, the state, the spreadsheet or the mail; the loop goes to the
\* backoff, sleeps 300 s and fetches again.
C4_FailedFetchKeepsBaseline ==
    [][(site_available /\ cycle # <<>> /\ cycle[1] = "fetch_failed") =>
          /\ UNCHANGED <<previous_html, previous_css, site_available, disk, mail, exception>>
          /\ pc' = (CASE pc = "fetched" -> "backoff"
                      [] pc = "backoff" -> "loop"
                      [] OTHER -> "fetched")
          /\ (pc = "backoff" => clock' = clock + 300)
          /\ (pc # "backoff" => clock' = clock)]_vars

\* a failed fetch in MONITORING, slept off, followed by a successful poll that
\* was diffed
C4_Witness ==
    /\ Len(oks) = 2
    /\ ticks = 3
    /\ Has(cycle, "diff")
    /\ clock = 300

\* C5: whenever the loop is about to fetch again, the last thing it did was
\* sleep; after the cycle of the first successful fetch that sleep is the
\* 1800 s interval.
C5_SleepBetweenFetches ==
    (pc = "loop" /\ ticks > 0) =>
        /\ Last(cycle) \in Sleeps
        /\ (cycle[1] = "fetch_ok" => Last(cycle) = "sleep1800")

\* C6: every call of send_email returns normally to main.
C6_SendEmailReturns ==
    /\ \A k \in 1..Len(mail) : mail[k].outcome # "raised"
    /\ exception # "send_email"

\* C7: parse_html returns a pair for every fetched page; no exception of it
\* reaches main.
C7_ParseNeverFails ==
    ~(pc = "crashed" /\ exception = "parse_html")

\* C8: main returns only when TO_EMAIL is absent, and with TO_EMAIL set every
\* state of main has a next step.
C8_NoTerminalState ==
    /\ pc = "returned" => ~to_email
    /\ to_email => pc \notin {"returned", "crashed"}

\* C9: without TO_EMAIL main returns before the loop: no fetch, no file
\* written or created, no email.
C9_MissingRecipient ==
    ~to_email =>
        /\ pc \in {"start", "returned"}
        /\ ticks = 0
        /\ disk = disk0
        /\ writes = <<>>
        /\ mail = <<>>

\* main has returned for lack of a recipient
C9_Witness ==
    /\ ~to_email
    /\ pc = "returned"

\* C10: on a file that did not exist at the first call, after n >= 1 saved
\* calls the file holds the header and then the n records in call order.
C10_AppendOnly ==
    (~disk0.exists /\ writes # <<>>) =>
        disk = [exists |-> TRUE, rows |-> <<Header>> \o writes]

\* two records written in one run to a file that did not exist
C10_Witness ==
    /\ ~disk0.exists
    /\ Len(writes) = 2
    /\ Len(disk.rows) = 3

\* --------------------------------------------------- get_diff on its own
Returned(fn) == pc = "return" /\ args.fn = fn

\* the number of lines of a diff text that start with the marker
CountMarked(text, mark) ==
    Cardinality({k \in 1..Len(splitlines(text)) : splitlines(text)[k][1] = mark})

\* the two line sequences have the same length and differ at one position
OneLineDiffers(x, y) ==
    /\ Len(x) = Len(y)
    /\ Cardinality({k \in 1..Len(x) : x[k] # y[k]}) = 1

NoRepeatedLine(x) == \A k, m \in 1..Len(x) : x[k] = x[m] => k = m

\* C11: get_diff(t, t) is the empty string for every text t.
C11_IdenticalEmpty ==
    (Returned("get_diff") /\ args.old = args.new) => result = <<>>

\* a text of several lines diffed against itself
C11_Witness ==
    /\ Returned("get_diff")
    /\ args.old = args.new
    /\ Len(splitlines(args.old)) = MaxLines
    /\ result = <<>>

\* C12 as stated: when old and new have the same number of lines and differ
\* in exactly one line, the output has exactly one '+' line and one '-' line.
C12_ExactlyOneEach ==
    (Returned("get_diff") /\ OneLineDiffers(splitlines(args.old), splitlines(args.new))) =>
        (CountMarked(result, "+") = 1 /\ CountMarked(result, "-") = 1)

\* C12 as amended: in that case the output has at least one '+' line and as
\* many '-' lines as '+' lines; exactly one of each when no line occurs twice
\* in old.
C12_SameCountOfEach ==
    (Returned("get_diff") /\ OneLineDiffers(splitlines(args.old), splitlines(args.new))) =>
        /\ CountMarked(result, "+") >= 1
        /\ CountMarked(result, "-") = CountMarked(result, "+")
        /\ NoRepeatedLine(splitlines(args.old)) =>
              (CountMarked(result, "+") = 1 /\ CountMarked(result, "-") = 1)

\* the second of two distinct lines replaced by a copy of the first
C12_Witness ==
    /\ Returned("get_diff")
    /\ OneLineDiffers(splitlines(args.old), splitlines(args.new))
    /\ NoRepeatedLine(splitlines(args.old))
    /\ ~NoRepeatedLine(splitlines(args.new))
    /\ CountMarked(result, "+") = 1

\* ------------------------------------------------- send_email on its own
\* C13: a given attachment path without a file behind it does not make
\* send_email fail: the call ends as the same call without a path ends, and
\* with a good configuration and a working SMTP session the message is sent
\* without attachment part; a message carries the attachment exactly when a
\* path is given and the file exists.
C13_MissingAttachment ==
    Returned("send_email") =>
        /\ (args.path /\ ~args.d.exists /\ args.env.port_ok /\ args.env.fail = "none") =>
              (result.outcome = "sent" /\ ~result.attached)
        /\ (args.path /\ ~args.d.exists) =>
              result = send_email(args.subject, FALSE, args.d, args.env)
        /\ result.outcome # "raised" => (result.attached <=> (args.path /\ args.d.exists))
        /\ result.attached => result.attachment = args.d.rows

\* a path is given, the file is not there, the mail goes out without it
C13_Witness ==
    /\ Returned("send_email")
    /\ args.path
    /\ ~args.d.exists
    /\ result.outcome = "sent"
    /\ ~result.attached

\* ------------------------------------------------ the cycle of a change
IsPrefix(x, y) == Len(x) <= Len(y) /\ \A k \in 1..Len(x) : x[k] = y[k]

ChangeCycle == <<"fetch_ok", "diff", "write", "email_change", "baseline", "sleep1800">>

\* the stored baseline is still the one the diffs of this cycle were taken from
BaselineNotYetReplaced ==
    /\ html_diff = get_diff(previous_html, current_html)
    /\ css_diff = get_diff(previous_css, current_css)
    /\ ChangeDetected(html_diff, css_diff)

\* C14: in a cycle that detects a change the record is saved first, then the
\* change notification goes out with the spreadsheet attached, the new row
\* already in it, and only then the baseline is replaced, both projections at
\* once.
C14_WriteNotifyReplace ==
    /\ Has(cycle, "write") => IsPrefix(cycle, ChangeCycle)
    /\ pc \in {"notify_change", "replace_baseline"} =>
          /\ disk.exists
          /\ Last(disk.rows) = Last(writes)
          /\ BaselineNotYetReplaced
    /\ pc = "notify_change" => ~Has(cycle, "email_change")
    /\ (Has(cycle, "email_change") /\ Last(mail).outcome # "raised") =>
          /\ Last(mail).subject = "change"
          /\ Last(mail).attached
          /\ Last(mail).attachment = disk.rows
          /\ Last(Last(mail).attachment) = Last(writes)
    /\ (Has(cycle, "write") /\ Has(cycle, "baseline")) =>
          /\ previous_html = current_html
          /\ previous_css = current_css

\* only the style diff is non-empty; the record is written, mailed, and the
\* baseline replaced
C14_Witness ==
    /\ Has(cycle, "write")
    /\ Has(cycle, "baseline")
    /\ html_diff = <<>>
    /\ css_diff # <<>>
    /\ Last(mail).attached
    /\ Last(Last(mail).attachment) = <<get_japan_time(clock), URL, html_diff, css_diff>>
    /\ previous_css = current_css

\* ------------------------------------------- a change notification that failed
\* the latest mail is a change notification whose SMTP session failed
LastChangeFailed ==
    /\ mail # <<>>
    /\ Last(mail).subject = "change"
    /\ Last(mail).outcome = "logged"

ChangeMails == {k \in 1..Len(mail) : mail[k].subject = "change"}

\* C15: after a change notification whose delivery failed, the record of that
\* cycle stays in the spreadsheet, the loop goes on and replaces the baseline
\* by the current snapshot, no notification is sent again for a record, and a
\* following poll with the same content writes no record and sends no mail.
C15_FailedNotification ==
    LastChangeFailed =>
        /\ disk.exists
        /\ Len(disk.rows) > Len(writes)
        /\ SubSeq(disk.rows, Len(disk.rows) - Len(writes) + 1, Len(disk.rows)) = writes
        /\ Cardinality(ChangeMails) <= Len(writes)
        /\ Has(cycle, "email_change") =>
              /\ pc \in {"replace_baseline", "interval", "loop"}
              /\ exception = "none"
              /\ Has(cycle, "baseline") =>
                    (previous_html = current_html /\ previous_css = current_css)
        /\ (/\ ~Has(cycle, "email_change")
            /\ Has(cycle, "fetch_ok")
            /\ oks[Len(oks)] = oks[Len(oks) - 1]) =>
              /\ pc \notin {"write", "notify_change", "replace_baseline"}
              /\ ~Has(cycle, "write")
              /\ Has(cycle, "diff") => (html_diff = <<>> /\ css_diff = <<>>)

\* a change was recorded, its notification failed, and the next poll brought
\* the same content: compared, nothing written, nothing sent
C15_Witness ==
    /\ LastChangeFailed
    /\ Len(oks) = 3
    /\ oks[3] = oks[2]
    /\ oks[2] # oks[1]
    /\ pc = "interval"
    /\ cycle = <<"fetch_ok", "diff">>
    /\ Len(writes) = 1
    /\ Cardinality(ChangeMails) = 1

\* ------------------------------------------------ write_to_excel fails
\* C16: an I/O failure of write_to_excel is not caught: the process ends
\* there, and in that cycle no change notification has been sent and the
\* baseline is the one the diffs were taken from.
C16_WriteFailureTerminates ==
    /\ [](exception = "write_to_excel" =>
            /\ pc = "crashed"
            /\ cycle = <<"fetch_ok", "diff", "write">>
            /\ Cardinality(ChangeMails) = Len(writes)
            /\ BaselineNotYetReplaced)
    /\ [][exception # "write_to_excel"]_vars

\* the record of a changed style text could not be saved
C16_Witness ==
    /\ exception = "write_to_excel"
    /\ pc = "crashed"
    /\ css_diff # <<>>
    /\ Len(oks) = 2

\* ------------------------------------------------------- the loop state
AvailableMails == {k \in 1..Len(mail) : mail[k].subject = "available"}

\* C17: site_available never goes back to FALSE; the 'now available'
\* notification is attempted once, in the cycle of the first successful fetch,
\* and it is the first mail of the run, before any record is written.
C17_MonotonicState ==
    /\ [][site_available => site_available']_vars
    /\ [](/\ ~site_available => (mail = <<>> /\ writes = <<>>)
          /\ (site_available /\ pc # "notify_available") => Cardinality(AvailableMails) = 1
          /\ pc = "notify_available" => (mail = <<>> /\ writes = <<>> /\ Len(oks) = 1)
          /\ Has(cycle, "email_available") => (Len(oks) = 1 /\ writes = <<>>)
          /\ mail # <<>> => AvailableMails = {1}
          /\ writes # <<>> => mail # <<>>)

\* a run with a failed fetch in MONITORING and a recorded change after it:
\* still one 'now available' mail, the first of the run
C17_Witness ==
    /\ site_available
    /\ ticks = 3
    /\ Len(oks) = 2
    /\ writes # <<>>
    /\ Len(mail) = 2
    /\ mail[1].subject = "available"
    /\ mail[2].subject = "change"

\* ---------------------------------------------------------- the baseline
\* C18: whenever a tick starts in MONITORING the baseline has the line
\* sequences of the normalized content of the latest successful fetch; the
\* baseline is set in the cycle of the first successful fetch and after that
\* changes only in the step that follows a written record.
C18_BaselineInvariant ==
    /\ []((pc = "loop" /\ site_available) =>
            /\ splitlines(previous_html) = splitlines(parse_html(Last(oks)).html)
            /\ splitlines(previous_css) = splitlines(parse_html(Last(oks)).css))
    /\ [][baseline' # baseline =>
            \/ pc = "set_baseline"
            \/ pc = "replace_baseline" /\ Has(cycle, "write") /\ Has(cycle, "email_change")]_vars

\* the latest fetch brought a style text that differs from the baseline in
\* its final newline only: no record, baseline kept, same lines
C18_Witness ==
    /\ pc = "loop"
    /\ site_available
    /\ Len(oks) >= 2
    /\ cycle = <<"fetch_ok", "diff", "sleep1800">>
    /\ previous_css # parse_html(Last(oks)).css
    /\ splitlines(previous_css) = splitlines(parse_html(Last(oks)).css)

\* ------------------------------------------------------ no change is missed
\* the compared snapshot differs from the baseline in its lines
LinesDiffer ==
    \/ splitlines(previous_html) # splitlines(current_html)
    \/ splitlines(previous_css) # splitlines(current_css)

\* the cycle has compared and the baseline is still the one compared with
Compared == Has(cycle, "diff") /\ ~Has(cycle, "baseline")

====
